---- MODULE Spec2Model ----
(***************************************************************************)
(* Model of drucker's lp module: the POSIX shell escaper (sh_escape), the  *)
(* command builder (build_command), the options builder and the job        *)
(* submitter (Drucker::print).                                             *)
(*                                                                         *)
(* A Rust String is modelled as a sequence of one-character strings, so    *)
(* "lp -d ''" is <<"l", "p", " ", "-", "d", " ", "'", "'">>.               *)
(***************************************************************************)
EXTENDS Integers, Sequences, FiniteSets

VARIABLES
    pc,        \* "escape" | "builder" | "ready": which part of the API is being driven
    opts,      \* DruckerOptionsBuilder.options, later Drucker.options
    ins,       \* history: job-option keys in the order job_option first inserted them
    content,   \* the DruckerContent of the last build_command / print call
    result,    \* what the last build_command call returned
    status,    \* what the last call returned: ret is "Ok" or "Err", all the caller gets
               \* (the error type is the unit type); runs, run, io are how often the
               \* shell was run, how it ended, and what the scratch storage did
    fs,        \* scratch storage: the files build_command created, path -> bytes
    now,       \* the system clock, microseconds since the Unix epoch (negative: before it)
    tmpdir,    \* std::env::temp_dir()
    jobs,      \* number of build_command / print calls made so far
    esc_in,    \* the argument of the last sh_escape call
    esc_out,   \* the value the last sh_escape call returned
    inflight,  \* the build_command / print calls under way, and how far each has got
    setter     \* history: the last call made on the options builder, with its argument

vars == <<pc, opts, ins, content, result, status, fs, now, tmpdir, jobs, esc_in, esc_out,
          inflight, setter>>

-----------------------------------------------------------------------------
(* Bounds of the model *)

\* longest string handed to sh_escape in SpecEscape
MaxLen == 3
\* number of build_command / print calls explored per Drucker in Spec and SpecOptions
MaxJobs == 1
\* number of build_command / print calls, overlapping or not, explored in SpecJobs
MaxSubmissions == 2
\* the clock runs from its initial value up to MaxClock microseconds
MaxClock == 1

-----------------------------------------------------------------------------
(* Strings *)

SQ == "'"
DQ == "\""
BS == "\\"
NL == "\n"
SP == " "
\* the backquote character (U+0060), which the TLA+ lexer does not admit in a
\* string literal: this token stands for that one character
BQ == "BQ"

\* The characters the escaper is exercised on: the quote characters, blanks,
\* and the shell metacharacters, plus one ordinary letter.
EscAlphabet == {"a", SQ, DQ, SP, NL, "$", BQ, BS, ";", "|", "&", "*"}

RECURSIVE StringsUpTo(_, _)
StringsUpTo(alphabet, n) ==
    IF n = 0 THEN {<<>>}
    ELSE LET shorter == StringsUpTo(alphabet, n - 1)
         IN  shorter \cup {Append(s, c) : s \in {t \in shorter : Len(t) = n - 1}, c \in alphabet}

-----------------------------------------------------------------------------
(* sh_escape: command.rs 74-81 *)

\* str::replace('\'', "'\"'\"'"): every single quote becomes the five
\* characters ' " ' " ' and every other character is copied.
\* a different quoting of the single quote: ' \ ' '
RECURSIVE ReplaceQuotesBackslash(_)
ReplaceQuotesBackslash(s) ==
    IF s = <<>> THEN <<>>
    ELSE (IF Head(s) = SQ THEN <<SQ, BS, SQ, SQ>> ELSE <<Head(s)>>)
         \o ReplaceQuotesBackslash(Tail(s))

RECURSIVE ReplaceQuotes(_)
ReplaceQuotes(s) ==
    IF s = <<>> THEN <<>>
    ELSE (IF Head(s) = SQ THEN <<SQ, DQ, SQ, DQ, SQ>> ELSE <<Head(s)>>)
         \o ReplaceQuotes(Tail(s))

\* an escaper that wraps in single quotes and forgets the quotes inside
sh_escape_unreplaced(s) ==
    IF s = <<>> THEN <<SQ, SQ>>
    ELSE <<SQ>> \o s \o <<SQ>>

sh_escape(s) ==
    IF s = <<>> THEN <<SQ, SQ>>
    ELSE <<SQ>> \o ReplaceQuotes(s) \o <<SQ>>

-----------------------------------------------------------------------------
(* How a POSIX shell reads a command line (sh -c <command>): XCU 2.2 quoting *)
(* and 2.3 token recognition.  The reader returns the words of the command   *)
(* after quote removal, and whether it met anything other than literal       *)
(* words: an unquoted operator, an expansion, a comment or an open quote.    *)

ShellOperators == {";", "|", "&", "<", ">", "(", ")", NL}
ShellExpansions == {"$", BQ, "*", "?", "["}
ShellBlanks == {SP, "\t"}
DQEscapable == {"$", BQ, DQ, BS}

EndWord(st) ==
    IF st.inword
    THEN [st EXCEPT !.words = Append(st.words, st.cur), !.cur = <<>>, !.inword = FALSE]
    ELSE st

Literal(st, c) == [st EXCEPT !.cur = Append(st.cur, c), !.inword = TRUE]

\* One character c read in state st.  The modes: "none" outside quotes,
\* "single" and "double" inside them, "escape" and "double_escape" right
\* after a backslash outside quotes and inside double quotes.
ReadChar(st, c) ==
    CASE st.mode = "single" /\ c = SQ -> [st EXCEPT !.mode = "none"]
      [] st.mode = "single" /\ c /= SQ -> Literal(st, c)
      [] st.mode = "escape" /\ c = NL -> [st EXCEPT !.mode = "none"]
      [] st.mode = "escape" /\ c /= NL -> Literal([st EXCEPT !.mode = "none"], c)
      [] st.mode = "double_escape" /\ c = NL -> [st EXCEPT !.mode = "double"]
      [] st.mode = "double_escape" /\ c \in DQEscapable ->
             Literal([st EXCEPT !.mode = "double"], c)
      [] st.mode = "double_escape" /\ c \notin DQEscapable \cup {NL} ->
             Literal(Literal([st EXCEPT !.mode = "double"], BS), c)
      [] st.mode = "double" /\ c = DQ -> [st EXCEPT !.mode = "none"]
      [] st.mode = "double" /\ c = BS -> [st EXCEPT !.mode = "double_escape"]
      [] st.mode = "double" /\ c \in {"$", BQ} -> [Literal(st, c) EXCEPT !.clean = FALSE]
      [] st.mode = "double" /\ c \notin {DQ, BS, "$", BQ} -> Literal(st, c)
      [] st.mode = "none" /\ c = SQ -> [st EXCEPT !.mode = "single", !.inword = TRUE]
      [] st.mode = "none" /\ c = DQ -> [st EXCEPT !.mode = "double", !.inword = TRUE]
      [] st.mode = "none" /\ c = BS -> [st EXCEPT !.mode = "escape"]
      [] st.mode = "none" /\ c \in ShellBlanks -> EndWord(st)
      [] st.mode = "none" /\ c \in ShellOperators -> [EndWord(st) EXCEPT !.clean = FALSE]
      [] st.mode = "none" /\ (c \in ShellExpansions \/ (c \in {"#", "~"} /\ ~st.inword)) ->
             [Literal(st, c) EXCEPT !.clean = FALSE]
      [] OTHER -> Literal(st, c)

ReaderModes == {"none", "single", "double", "escape", "double_escape"}

\* The characters of s from the i-th on, read in state st.  The state is
\* looked at before each character, so that it is computed character by
\* character and not all at the end.
RECURSIVE ShellRead(_, _, _)
ShellRead(s, i, st) ==
    IF st.mode \notin ReaderModes \/ i > Len(s) THEN st
    ELSE ShellRead(s, i + 1, ReadChar(st, s[i]))

ShellWords(s) ==
    LET end == ShellRead(s, 1, [mode |-> "none", cur |-> <<>>, inword |-> FALSE,
                                words |-> <<>>, clean |-> TRUE])
    IN  [words |-> EndWord(end).words, clean |-> end.clean /\ end.mode = "none"]

\* A command line that the shell reads as exactly the words ws, literally.
ReadsAs(s, ws) == ShellWords(s) = [words |-> ws, clean |-> TRUE]

-----------------------------------------------------------------------------
(* Option<T>: None is the empty tuple, Some(x) the one-element tuple *)

None == <<>>
Some(x) == <<x>>
IsSome(o) == o /= <<>>
Unwrap(o) == o[1]

-----------------------------------------------------------------------------
(* BTreeMap<String, String> (options.rs 13): the entries <<key, value>> in   *)
(* ascending key order, keys unique.  String's Ord compares byte by byte.    *)

\* the characters of the model in ascending code-point order
AsciiOrder ==
    <<NL, SP, DQ, "#", "$", "&", SQ, "*", "-", ".", "/",
      "0", "1", "2", "3", "4", "5", "6", "7", "8", "9", ";", "=",
      "J", "O", "P", "Q", "R", BS, BQ, "a", "b", "d", "f", "h", "k", "l", "n", "o",
      "p", "r", "s", "t", "u", "w", "x", "z", "|">>

CharRank(c) == CHOOSE i \in 1..Len(AsciiOrder) : AsciiOrder[i] = c

RECURSIVE StrLess(_, _)
StrLess(a, b) ==
    IF b = <<>> THEN FALSE
    ELSE IF a = <<>> THEN TRUE
    ELSE IF Head(a) = Head(b) THEN StrLess(Tail(a), Tail(b))
    ELSE CharRank(Head(a)) < CharRank(Head(b))

BTreeMapNew == <<>>

\* an insert that keeps insertion order: a new key goes to the end
RECURSIVE BTreeMapInsertAppend(_, _, _)
BTreeMapInsertAppend(m, k, v) ==
    IF m = <<>> THEN <<<<k, v>>>>
    ELSE IF Head(m)[1] = k THEN <<<<k, v>>>> \o Tail(m)
    ELSE <<Head(m)>> \o BTreeMapInsertAppend(Tail(m), k, v)

\* an insert that keeps the value of a key already present
RECURSIVE BTreeMapInsertKeep(_, _, _)
BTreeMapInsertKeep(m, k, v) ==
    IF m = <<>> THEN <<<<k, v>>>>
    ELSE IF Head(m)[1] = k THEN m
    ELSE IF StrLess(k, Head(m)[1]) THEN <<<<k, v>>>> \o m
    ELSE <<Head(m)>> \o BTreeMapInsertKeep(Tail(m), k, v)

\* BTreeMap::insert: replaces the value of a key already present, otherwise
\* puts the entry at its place in key order
RECURSIVE BTreeMapInsert(_, _, _)
BTreeMapInsert(m, k, v) ==
    IF m = <<>> THEN <<<<k, v>>>>
    ELSE IF Head(m)[1] = k THEN <<<<k, v>>>> \o Tail(m)
    ELSE IF StrLess(k, Head(m)[1]) THEN <<<<k, v>>>> \o m
    ELSE <<Head(m)>> \o BTreeMapInsert(Tail(m), k, v)

IsBTreeMap(m) ==
    \A i \in 1..(Len(m) - 1) : StrLess(m[i][1], m[i + 1][1])

-----------------------------------------------------------------------------
(* build_command: command.rs 12-69 *)

Digits == <<"0", "1", "2", "3", "4", "5", "6", "7", "8", "9">>

\* format!("{n}") of a u32: its decimal digits
RECURSIVE Decimal(_)
Decimal(n) ==
    IF n < 10 THEN <<Digits[n + 1]>>
    ELSE Decimal(n \div 10) \o <<Digits[(n % 10) + 1]>>

\* command.rs 16-20
ProgramArg(o) == IF o.use_lpr THEN <<"l", "p", "r">> ELSE <<"l", "p">>

\* the destination flags of the two variants the wrong way round
DestinationArgSwapped(o) ==
    IF IsSome(o.destination)
    THEN (IF o.use_lpr THEN <<SP, "-", "d", SP>> ELSE <<SP, "-", "P", SP>>)
         \o sh_escape(Unwrap(o.destination))
    ELSE <<>>

\* command.rs 22-28
DestinationArg(o) ==
    IF IsSome(o.destination)
    THEN (IF o.use_lpr THEN <<SP, "-", "P", SP>> ELSE <<SP, "-", "d", SP>>)
         \o sh_escape(Unwrap(o.destination))
    ELSE <<>>

\* the lpr count as a token of its own, like the lp count
CopiesArgSpaced(o) ==
    IF IsSome(o.copies)
    THEN (IF o.use_lpr THEN <<SP, "-", "#", SP>> ELSE <<SP, "-", "n", SP>>)
         \o Decimal(Unwrap(o.copies))
    ELSE <<>>

\* command.rs 30-36
CopiesArg(o) ==
    IF IsSome(o.copies)
    THEN (IF o.use_lpr THEN <<SP, "-", "#">> ELSE <<SP, "-", "n", SP>>)
         \o Decimal(Unwrap(o.copies))
    ELSE <<>>

\* the title pushed as it is, like a job option
TitleArgRaw(o) ==
    IF IsSome(o.title)
    THEN (IF o.use_lpr THEN <<SP, "-", "J", SP>> ELSE <<SP, "-", "t", SP>>)
         \o Unwrap(o.title)
    ELSE <<>>

\* command.rs 38-44
TitleArg(o) ==
    IF IsSome(o.title)
    THEN (IF o.use_lpr THEN <<SP, "-", "J", SP>> ELSE <<SP, "-", "t", SP>>)
         \o sh_escape(Unwrap(o.title))
    ELSE <<>>

\* a job option with its value escaped, like the other options
JobOptionArgEscaped(k, v) == <<SP, "-", "o", SP>> \o k \o <<"=">> \o sh_escape(v)

\* command.rs 47-50: one job option, key and value pushed as they are
JobOptionArg(k, v) == <<SP, "-", "o", SP>> \o k \o <<"=">> \o v

\* command.rs 46-51: the loop over the map, in the map's iteration order
RECURSIVE JobOptionArgs(_)
JobOptionArgs(m) ==
    IF m = <<>> THEN <<>>
    ELSE JobOptionArg(Head(m)[1], Head(m)[2]) \o JobOptionArgs(Tail(m))

\* the title group pushed before the copies group
BaseCommandTitleFirst(o) ==
    ProgramArg(o) \o DestinationArg(o) \o TitleArg(o) \o CopiesArg(o)
    \o JobOptionArgs(o.job_options)

\* command.rs 16-51: the command line before the content argument
BaseCommand(o) ==
    ProgramArg(o) \o DestinationArg(o) \o CopiesArg(o) \o TitleArg(o)
    \o JobOptionArgs(o.job_options)

\* a byte of a path that is not valid UTF-8, and U+FFFD, the replacement
\* character Path::to_string_lossy puts in its place
BadByte == "xFF"
Replacement == "uFFFD"

RECURSIVE to_string_lossy(_)
to_string_lossy(p) ==
    IF p = <<>> THEN <<>>
    ELSE <<IF Head(p) = BadByte THEN Replacement ELSE Head(p)>> \o to_string_lossy(Tail(p))

\* command.rs 83-86
sh_escape_path(p) == sh_escape(to_string_lossy(p))

\* PathBuf::push of a relative name: a separator is added unless the
\* directory is empty or already ends with one
PathPush(dir, name) ==
    IF dir = <<>> THEN name
    ELSE IF dir[Len(dir)] = "/" THEN dir \o name
    ELSE dir \o <<"/">> \o name

\* command.rs 88-96 with the arguments of line 61: <temp_dir>/drucker-<ts>.txt,
\* ts the microseconds since the epoch, 0 when the clock is before the epoch
temp_path(dir, clock) ==
    LET ts == IF clock < 0 THEN 0 ELSE clock
    IN  PathPush(dir, <<"d", "r", "u", "c", "k", "e", "r", "-">> \o Decimal(ts)
                      \o <<".", "t", "x", "t">>)

File(p) == [kind |-> "File", val |-> p]
Text(t) == [kind |-> "Text", val |-> t]

Ok(cmd) == [ok |-> TRUE, cmd |-> cmd]
Err == [ok |-> FALSE, cmd |-> <<>>]

\* fs::File::create(path): the file exists and is empty, whatever it held
CreateFile(files, path) ==
    [q \in DOMAIN files \cup {path} |-> IF q = path THEN <<>> ELSE files[q]]

\* the byte a file holds where nothing was written below its end
NUL == "NUL"

\* n zero bytes
Zeros(n) == [j \in 1..n |-> NUL]

\* One write(2) of write_all, on the handle File::create returned, that
\* wrote bytes.  off is the position of the handle, the number of bytes it
\* has written before.  The bytes go to that position, over what another
\* handle may have written there since; what lies beyond them stays; and when
\* the file was truncated below the position in the meantime, the gap reads
\* as zero bytes.
WriteAt(files, path, off, bytes) ==
    LET old == IF path \in DOMAIN files THEN files[path] ELSE <<>>
        head == IF Len(old) >= off THEN SubSeq(old, 1, off)
                ELSE old \o Zeros(off - Len(old))
        tail == SubSeq(old, off + Len(bytes) + 1, Len(old))
    IN  [q \in DOMAIN files \cup {path} |->
            IF q = path THEN head \o bytes \o tail ELSE files[q]]

\* command.rs 62-63 with nothing else touching the file in between
WriteFile(files, path, bytes) == WriteAt(CreateFile(files, path), path, 0, bytes)

\* What the scratch storage does to a Text job (command.rs 62-63), from
\* File::create to the return of write_all:
\*   "ok"            the file is created and all bytes are written
\*   "create_fails"  fs::File::create returns an error
\*   "write_fails"   write_all returns an error after n bytes (n < the length)
\* A File job touches no scratch storage.
IoOk == [kind |-> "ok", n |-> 0]

\* what File::create (command.rs 62) comes to
CreateOutcomes == {IoOk, [kind |-> "create_fails", n |-> 0]}

\* What one write(2) of write_all (command.rs 63) comes to when rest bytes
\* are still to be written: it writes n of them, from one to all, or it
\* returns an error (a return of zero bytes is an error to write_all too).
\* A write that was interrupted changes nothing and is made again.
WriteOutcomes(rest) ==
    {[kind |-> "ok", n |-> n] : n \in 1..rest} \cup {[kind |-> "write_fails", n |-> 0]}

\* build_command without the check of command.rs 55-57
build_command_unchecked(o, c, io, files, dir, clock) ==
    LET base == BaseCommand(o) IN
    IF c.kind = "File"
    THEN [res |-> Ok(base \o <<SP>> \o sh_escape_path(c.val)), fs |-> files]
    ELSE LET path == temp_path(dir, clock) IN
         IF io.kind = "create_fails"
         THEN [res |-> Err, fs |-> files]
         ELSE IF io.kind = "ok"
         THEN [res |-> Ok(base \o <<SP>> \o sh_escape_path(path)),
               fs |-> WriteFile(files, path, c.val)]
         ELSE [res |-> Err, fs |-> WriteFile(files, path, SubSeq(c.val, 1, io.n))]

\* build_command that validates the copy count and rejects zero copies
build_command_validating(o, c, io, files, dir, clock) ==
    LET base == BaseCommand(o) IN
    IF o.copies = Some(0) THEN [res |-> Err, fs |-> files]
    ELSE IF c.kind = "File"
    THEN IF c.val = <<>>
         THEN [res |-> Err, fs |-> files]
         ELSE [res |-> Ok(base \o <<SP>> \o sh_escape_path(c.val)), fs |-> files]
    ELSE LET path == temp_path(dir, clock) IN
         IF io.kind = "create_fails"
         THEN [res |-> Err, fs |-> files]
         ELSE IF io.kind = "ok"
         THEN [res |-> Ok(base \o <<SP>> \o sh_escape_path(path)),
               fs |-> WriteFile(files, path, c.val)]
         ELSE [res |-> Err, fs |-> WriteFile(files, path, SubSeq(c.val, 1, io.n))]

\* command.rs 12-69: the value returned and the scratch storage afterwards
build_command(o, c, io, files, dir, clock) ==
    LET base == BaseCommand(o) IN
    IF c.kind = "File"
    THEN IF c.val = <<>>
         THEN [res |-> Err, fs |-> files]
         ELSE [res |-> Ok(base \o <<SP>> \o sh_escape_path(c.val)), fs |-> files]
    ELSE LET path == temp_path(dir, clock) IN
         IF io.kind = "create_fails"
         THEN [res |-> Err, fs |-> files]
         ELSE IF io.kind = "ok"
         THEN [res |-> Ok(base \o <<SP>> \o sh_escape_path(path)),
               fs |-> WriteFile(files, path, c.val)]
         ELSE [res |-> Err, fs |-> WriteFile(files, path, SubSeq(c.val, 1, io.n))]

-----------------------------------------------------------------------------
(* Inputs *)

\* strings the setters of the options builder are called with in SpecOptions
DestinationPool == {<<"O", SP, "P">>, <<SQ>>}
TitlePool == {<<"Q", SP, SQ, "R", SQ>>}
\* u32 values; the largest is the largest integer TLC represents
CopiesPool == {0, 2, 10, 2147483647}
KeyPool == {<<"a">>, <<"z">>}
ValuePool == {<<"1">>, <<"2">>}
\* maps handed to job_options(..) whole
MapPool == {<<>>, << <<<<"a">>, <<"2">>>>, <<<<"z">>, <<"1">>>> >>}
\* the contents jobs are submitted with, and the temp directories
FilePool == {<<>>, <<"a", SP, SQ>>, <<"/", BadByte>>}
TextPool == {<<>>, <<"h", NL, SQ>>}
TmpDirPool == {<<>>, <<"/", "t">>, <<"/", SQ, "/">>}
ContentPool == {File(p) : p \in FilePool} \cup {Text(t) : t \in TextPool}

\* the outcome of Command::new("sh").arg("-c").arg(cmd).status()
RunOutcomes == {"spawn_fails", "exit_nonzero", "exit_zero"}

-----------------------------------------------------------------------------
(* DruckerOptions and its builder: options.rs *)

\* options.rs 18-28
DefaultOptions ==
    [destination |-> None, copies |-> None, title |-> None,
     job_options |-> BTreeMapNew, use_lpr |-> FALSE]

NoCall == [op |-> "none", ret |-> "none", runs |-> 0, run |-> "none", io |-> "none"]
NoSetter == [name |-> "none", arg |-> <<>>]

Untouched ==
    UNCHANGED <<content, result, status, fs, now, tmpdir, jobs, esc_in, esc_out, inflight>>

\* options.rs 46-49
Destination(d) ==
    /\ pc = "builder"
    /\ setter' = [name |-> "destination", arg |-> d]
    /\ opts' = [opts EXCEPT !.destination = Some(d)]
    /\ UNCHANGED <<pc, ins>> /\ Untouched

\* options.rs 52-55
DestinationIf(od) ==
    /\ pc = "builder"
    /\ setter' = [name |-> "destination_if", arg |-> od]
    /\ opts' = [opts EXCEPT !.destination = od]
    /\ UNCHANGED <<pc, ins>> /\ Untouched

\* options.rs 58-61
ClearDestination ==
    /\ pc = "builder"
    /\ setter' = [name |-> "clear_destination", arg |-> <<>>]
    /\ opts' = [opts EXCEPT !.destination = None]
    /\ UNCHANGED <<pc, ins>> /\ Untouched

\* options.rs 64-67
Copies(n) ==
    /\ pc = "builder"
    /\ setter' = [name |-> "copies", arg |-> n]
    /\ opts' = [opts EXCEPT !.copies = Some(n)]
    /\ UNCHANGED <<pc, ins>> /\ Untouched

\* options.rs 70-73
ClearCopies ==
    /\ pc = "builder"
    /\ setter' = [name |-> "clear_copies", arg |-> <<>>]
    /\ opts' = [opts EXCEPT !.copies = None]
    /\ UNCHANGED <<pc, ins>> /\ Untouched

\* options.rs 76-79
Title(t) ==
    /\ pc = "builder"
    /\ setter' = [name |-> "title", arg |-> t]
    /\ opts' = [opts EXCEPT !.title = Some(t)]
    /\ UNCHANGED <<pc, ins>> /\ Untouched

\* options.rs 82-85
ClearTitle ==
    /\ pc = "builder"
    /\ setter' = [name |-> "clear_title", arg |-> <<>>]
    /\ opts' = [opts EXCEPT !.title = None]
    /\ UNCHANGED <<pc, ins>> /\ Untouched

\* options.rs 88-91
JobOptions(m) ==
    /\ pc = "builder"
    /\ setter' = [name |-> "job_options", arg |-> m]
    /\ opts' = [opts EXCEPT !.job_options = m]
    /\ ins' = <<>>
    /\ UNCHANGED pc /\ Untouched

\* options.rs 94-101
JobOption(k, v) ==
    /\ pc = "builder"
    /\ setter' = [name |-> "job_option", arg |-> <<k, v>>]
    /\ opts' = [opts EXCEPT !.job_options = BTreeMapInsert(opts.job_options, k, v)]
    /\ ins' = IF \E i \in 1..Len(ins) : ins[i] = k THEN ins ELSE Append(ins, k)
    /\ UNCHANGED pc /\ Untouched

\* options.rs 104-107
UseLpr(b) ==
    /\ pc = "builder"
    /\ setter' = [name |-> "use_lpr", arg |-> b]
    /\ opts' = [opts EXCEPT !.use_lpr = b]
    /\ UNCHANGED <<pc, ins>> /\ Untouched

\* options.rs 110-112 and drucker.rs 15-17: build(), then Drucker::new
Build ==
    /\ pc = "builder"
    /\ pc' = "ready"
    /\ UNCHANGED <<opts, ins, setter>> /\ Untouched

-----------------------------------------------------------------------------
(* Drucker: drucker.rs *)

\* what the scratch storage did in a call: nothing is asked of it for a file
IoSeen(c, io) == IF c.kind = "File" THEN "none" ELSE io.kind

\* a print that takes every exit status for success
print_returns_any_exit(built, run, seen) ==
    IF ~built
    THEN [op |-> "print", ret |-> "Err", runs |-> 0, run |-> "none", io |-> seen]
    ELSE [op |-> "print", ret |-> IF run = "spawn_fails" THEN "Err" ELSE "Ok",
          runs |-> 1, run |-> run, io |-> seen]

\* drucker.rs 23-29: what print returns.  When build_command failed (built
\* is FALSE) it returns Err without running the shell; otherwise it runs
\* sh -c once and returns Ok when the shell was spawned and exited with
\* status zero, Err when it was not spawned or exited with another status.
print_returns(built, run, seen) ==
    IF ~built
    THEN [op |-> "print", ret |-> "Err", runs |-> 0, run |-> "none", io |-> seen]
    ELSE [op |-> "print", ret |-> IF run = "exit_zero" THEN "Ok" ELSE "Err",
          runs |-> 1, run |-> run, io |-> seen]

\* what build_command hands to its caller
build_command_returns(built, seen) ==
    [op |-> "build_command", ret |-> IF built THEN "Ok" ELSE "Err",
     runs |-> 0, run |-> "none", io |-> seen]

\* A call under way.  op is the function called and content its argument;
\* at is how far the call has got: "named" (temp_path has read the clock, ts
\* being the reading), "created" (File::create has returned the file and
\* write_all is writing to it, off being the number of bytes it has written),
\* "built" (print has the command, cmd, and runs the shell).
Call(op, c, at, ts, cmd) ==
    [op |-> op, content |-> c, at |-> at, ts |-> ts, cmd |-> cmd, off |-> 0]

Drop(q, i) == SubSeq(q, 1, i - 1) \o SubSeq(q, i + 1, Len(q))

\* a call on content c returns res to its caller
Return(c, res, st) ==
    /\ content' = Some(c)
    /\ result' = Some(res)
    /\ status' = st

\* what the call k returns when build_command has ended as res
Returned(k, res, seen) ==
    IF k.op = "print" THEN print_returns(FALSE, "none", seen)
    ELSE build_command_returns(res.ok, seen)

\* the bytes write_all of the call k has still to write
Rest(k) == SubSeq(k.content.val, k.off + 1, Len(k.content.val))

\* build_command has ended as res in the i-th call under way: it returns res
\* to its caller, unless that is print and res a command, which print runs
Ended(i, res, seen) ==
    LET k == inflight[i] IN
    IF res.ok /\ k.op = "print"
    THEN /\ inflight' = [inflight EXCEPT ![i].at = "built", ![i].cmd = res.cmd]
         /\ UNCHANGED <<content, result, status>>
    ELSE /\ inflight' = Drop(inflight, i)
         /\ Return(k.content, res, Returned(k, res, seen))

\* drucker.rs 33-35 and command.rs 12-61: build_command is called on content
\* c.  For a file it returns at once (command.rs 54-59, 68); for a text it
\* gets as far as temp_path, which reads the clock (command.rs 61, 89-92).
BuildCommand(c) ==
    /\ pc = "ready"
    /\ IF c.kind = "File"
       THEN LET out == build_command(opts, c, IoOk, fs, tmpdir, now) IN
            /\ Return(c, out.res, build_command_returns(out.res.ok, "none"))
            /\ UNCHANGED inflight
       ELSE /\ inflight' = Append(inflight, Call("build_command", c, "named", now, <<>>))
            /\ UNCHANGED <<content, result, status>>
    /\ jobs' = jobs + 1
    /\ UNCHANGED <<pc, opts, ins, fs, now, tmpdir, esc_in, esc_out, setter>>

\* drucker.rs 22-23: print is called on content c and calls build_command.
\* For a file, Err makes print return at once (the ? of line 23) and Ok
\* leaves it with the command to run; for a text build_command gets as far
\* as temp_path.
StartPrint(c) ==
    /\ pc = "ready"
    /\ IF c.kind = "File"
       THEN LET out == build_command(opts, c, IoOk, fs, tmpdir, now) IN
            IF out.res.ok
            THEN /\ inflight' = Append(inflight, Call("print", c, "built", now, out.res.cmd))
                 /\ UNCHANGED <<content, result, status>>
            ELSE /\ Return(c, out.res, print_returns(FALSE, "none", "none"))
                 /\ UNCHANGED inflight
       ELSE /\ inflight' = Append(inflight, Call("print", c, "named", now, <<>>))
            /\ UNCHANGED <<content, result, status>>
    /\ jobs' = jobs + 1
    /\ UNCHANGED <<pc, opts, ins, fs, now, tmpdir, esc_in, esc_out, setter>>

\* command.rs 62 in the i-th call under way: File::create on the path
\* temp_path made; io is "ok" (the file is there, empty) or "create_fails"
\* (build_command returns Err, and so does print).  With an empty text
\* write_all has nothing to write and makes no system call (command.rs 63),
\* so build_command ends with the command.
CreateScratch(i, io) ==
    /\ pc = "ready"
    /\ i \in 1..Len(inflight)
    /\ inflight[i].at = "named"
    /\ io \in CreateOutcomes
    /\ LET k == inflight[i]
           res == build_command(opts, k.content, io, fs, tmpdir, k.ts).res
       IN  IF io.kind = "ok"
           THEN /\ fs' = CreateFile(fs, temp_path(tmpdir, k.ts))
                /\ IF k.content.val = <<>>
                   THEN Ended(i, res, io.kind)
                   ELSE /\ inflight' = [inflight EXCEPT ![i].at = "created"]
                        /\ UNCHANGED <<content, result, status>>
           ELSE /\ fs' = fs
                /\ Ended(i, res, io.kind)
    /\ UNCHANGED <<pc, opts, ins, now, tmpdir, jobs, esc_in, esc_out, setter>>

\* command.rs 63-68 in the i-th call under way: one write(2) of write_all
\* on the file created.  It writes io.n of the bytes still to be written at
\* the position of the handle; when bytes remain write_all goes on, and when
\* none does build_command returns the command (and print goes on to run
\* it).  Or it fails ("write_fails"), the file staying as it is, and
\* build_command returns Err, and so does print.
WriteScratch(i, io) ==
    /\ pc = "ready"
    /\ i \in 1..Len(inflight)
    /\ inflight[i].at = "created"
    /\ io \in WriteOutcomes(Len(Rest(inflight[i])))
    /\ LET k == inflight[i]
           res == build_command(opts, k.content, io, fs, tmpdir, k.ts).res
       IN  IF io.kind = "ok"
           THEN /\ fs' = WriteAt(fs, temp_path(tmpdir, k.ts), k.off, SubSeq(Rest(k), 1, io.n))
                /\ IF io.n = Len(Rest(k))
                   THEN Ended(i, res, io.kind)
                   ELSE /\ inflight' = [inflight EXCEPT ![i].off = k.off + io.n]
                        /\ UNCHANGED <<content, result, status>>
           ELSE /\ fs' = fs
                /\ Ended(i, res, io.kind)
    /\ UNCHANGED <<pc, opts, ins, now, tmpdir, jobs, esc_in, esc_out, setter>>

\* drucker.rs 24-29 in the i-th call under way: the shell has run the
\* command the call built, ending as run, and print returns
FinishPrint(i, run) ==
    /\ pc = "ready"
    /\ i \in 1..Len(inflight)
    /\ inflight[i].at = "built"
    /\ LET k == inflight[i] IN
         Return(k.content, Ok(k.cmd), print_returns(TRUE, run, IoSeen(k.content, IoOk)))
    /\ inflight' = Drop(inflight, i)
    /\ UNCHANGED <<pc, opts, ins, fs, now, tmpdir, jobs, esc_in, esc_out, setter>>

\* the system clock advances by a microsecond
Tick ==
    /\ pc = "ready"
    /\ now < MaxClock
    /\ now' = now + 1
    /\ UNCHANGED <<pc, opts, ins, content, result, status, fs, tmpdir, jobs, esc_in, esc_out,
                   inflight, setter>>

\* command.rs 74-81 called on esc_in
Escape ==
    /\ pc = "escape"
    /\ esc_out = None
    /\ esc_out' = Some(sh_escape(esc_in))
    /\ UNCHANGED <<pc, opts, ins, content, result, status, fs, now, tmpdir, jobs, esc_in,
                   inflight, setter>>

-----------------------------------------------------------------------------
(* Specifications *)

EmptyFs == [q \in {} |-> <<>>]

Idle ==
    /\ ins = <<>>
    /\ content = None
    /\ result = None
    /\ status = NoCall
    /\ fs = EmptyFs
    /\ jobs = 0
    /\ inflight = <<>>
    /\ setter = NoSetter

\* The options a Drucker is created with in Spec: the default options, and
\* FullOptions with one field at a time running over the values of interest,
\* under both variants.
FullOptions ==
    [destination |-> Some(<<"O", SP, "P">>), copies |-> Some(2),
     title |-> Some(<<"Q", SP, SQ, "R", SQ>>),
     job_options |-> << <<<<"a">>, <<"2">>>>, <<<<"z">>, <<"1">>>> >>,
     use_lpr |-> FALSE]

OptionStrings == {None, Some(<<>>), Some(<<"O", SP, "P">>), Some(<<SQ, ";", "$">>)}
OptionCopies == {None} \cup {Some(n) : n \in CopiesPool}
OptionMaps ==
    {<<>>,
     << <<<<"a">>, <<"2">>>>, <<<<"z">>, <<"1">>>> >>,
     << <<<<>>, <<>>>> >>,
     << <<<<"k", SP, "k">>, <<SQ>>>> >>,
     << <<<<"k">>, <<"1", ";", "x">>>> >>}

OptionsPool ==
    {[o EXCEPT !.use_lpr = b] : b \in BOOLEAN,
        o \in {DefaultOptions}
              \cup {[FullOptions EXCEPT !.destination = d] : d \in OptionStrings}
              \cup {[FullOptions EXCEPT !.copies = n] : n \in OptionCopies}
              \cup {[FullOptions EXCEPT !.title = t] : t \in OptionStrings}
              \cup {[FullOptions EXCEPT !.job_options = m] : m \in OptionMaps}}

\* Spec: a Drucker created with some options takes build_command and print
\* calls.  Either the options run over OptionsPool, with the temp directory
\* /t and the clock at the epoch, or the temp directory runs over TmpDirPool
\* and the clock starts before or at the epoch, with the default options.
Init ==
    /\ pc = "ready"
    /\ \/ opts \in OptionsPool /\ now = 0 /\ tmpdir = <<"/", "t">>
       \/ opts = DefaultOptions /\ now \in {-1, 0} /\ tmpdir \in TmpDirPool
    /\ esc_in = <<>>
    /\ esc_out = None
    /\ Idle

DoBuildCommand ==
    /\ jobs < MaxJobs
    /\ \E c \in ContentPool : BuildCommand(c)

DoPrint ==
    /\ jobs < MaxJobs
    /\ \E c \in ContentPool : StartPrint(c)

\* the steps of the calls under way
DoCreate == \E i \in 1..Len(inflight) : \E io \in CreateOutcomes : CreateScratch(i, io)
DoWrite ==
    \E i \in 1..Len(inflight) :
        \E io \in WriteOutcomes(Len(inflight[i].content.val)) : WriteScratch(i, io)
DoFinish == \E i \in 1..Len(inflight) : \E run \in RunOutcomes : FinishPrint(i, run)

Next == DoBuildCommand \/ DoPrint \/ DoCreate \/ DoWrite \/ DoFinish \/ Tick

Spec == Init /\ [][Next]_vars

\* SpecOptions: options are put together with the builder, from builder() to
\* build(), and the Drucker made from them builds the command for a file
InitOptions ==
    /\ pc = "builder"
    /\ opts = DefaultOptions
    /\ now = 0
    /\ tmpdir = <<"/", "t">>
    /\ esc_in = <<>>
    /\ esc_out = None
    /\ Idle

SetDestination == \E d \in DestinationPool : Destination(d)
SetDestinationIf == \E od \in {None} \cup {Some(d) : d \in DestinationPool} : DestinationIf(od)
SetCopies == \E n \in CopiesPool : Copies(n)
SetTitle == \E t \in TitlePool : Title(t)
SetJobOptions == \E m \in MapPool : JobOptions(m)
SetJobOption == \E k \in KeyPool, v \in ValuePool : JobOption(k, v)
SetUseLpr == \E b \in BOOLEAN : UseLpr(b)
BuildCommandOnFile ==
    /\ jobs < MaxJobs
    /\ \E p \in {<<>>, <<"f">>} : BuildCommand(File(p))

NextOptions ==
    \/ SetDestination \/ SetDestinationIf \/ ClearDestination
    \/ SetCopies \/ ClearCopies
    \/ SetTitle \/ ClearTitle
    \/ SetJobOptions \/ SetJobOption
    \/ SetUseLpr
    \/ Build
    \/ BuildCommandOnFile

SpecOptions == InitOptions /\ [][NextOptions]_vars

\* SpecJobs: one Drucker with the default options, shared by several callers,
\* takes up to MaxSubmissions build_command and print calls, which overlap
JobContents == {File(<<>>), File(<<"f">>), Text(<<"w">>), Text(<<"h", "i">>)}

InitJobs ==
    /\ pc = "ready"
    /\ opts = DefaultOptions
    /\ now \in {-1, 0}
    /\ tmpdir = <<"/", "t">>
    /\ esc_in = <<>>
    /\ esc_out = None
    /\ Idle

BuildCommandJob ==
    /\ jobs < MaxSubmissions
    /\ \E c \in JobContents : BuildCommand(c)

StartPrintJob ==
    /\ jobs < MaxSubmissions
    /\ \E c \in JobContents : StartPrint(c)

NextJobs == BuildCommandJob \/ StartPrintJob \/ DoCreate \/ DoWrite \/ DoFinish \/ Tick

SpecJobs == InitJobs /\ [][NextJobs]_vars

\* SpecEscape: sh_escape applied to every string of up to MaxLen characters
InitEscape ==
    /\ pc = "escape"
    /\ opts = DefaultOptions
    /\ now = 0
    /\ tmpdir = <<"/", "t">>
    /\ esc_in \in StringsUpTo(EscAlphabet, MaxLen)
    /\ esc_out = None
    /\ Idle

NextEscape == Escape

SpecEscape == InitEscape /\ [][NextEscape]_vars

-----------------------------------------------------------------------------
(* Properties *)

\* t occurs in s starting at position i
OccursAt(s, i, t) ==
    /\ i >= 1
    /\ i + Len(t) - 1 <= Len(s)
    /\ SubSeq(s, i, i + Len(t) - 1) = t

IsPrefix(t, s) == OccursAt(s, 1, t)
IsSuffix(t, s) == OccursAt(s, Len(s) - Len(t) + 1, t)
Contains(s, t) == \E i \in 1..(Len(s) + 1) : OccursAt(s, i, t)

Escaped == pc = "escape" /\ IsSome(esc_out)

\* C1: round trip of the escaper.  For every string s, a POSIX shell reads
\* sh_escape(s) as exactly one word, that word is s, and nothing in it is an
\* operator or an expansion.
C1_RoundTrip == Escaped => ReadsAs(Unwrap(esc_out), <<esc_in>>)

\* sh_escape has been applied to a string with two single quotes and a metacharacter
C1_Witness == Escaped /\ esc_in = <<SQ, "$", SQ>>

\* the number of single quotes among the first n characters of s
QuotesBefore(s, n) == Cardinality({j \in 1..n : s[j] = SQ})

\* C3: exact form of the escaper output.  sh_escape("") is the two characters
\* '' and otherwise the output is a single quote, the input with every single
\* quote replaced by the five characters ' " ' " ' and every other character in
\* place, and a single quote: the i-th input character lands at position
\* 1 + i + 4 * (quotes before it).  The output is never empty and starts and
\* ends with a single quote.
C3_ExactForm ==
    Escaped =>
        LET s == esc_in
            e == Unwrap(esc_out)
            at(i) == 1 + i + 4 * QuotesBefore(s, i - 1)
        IN  /\ (s = <<>> => e = <<SQ, SQ>>)
            /\ Len(e) = Len(s) + 2 + 4 * QuotesBefore(s, Len(s))
            /\ e[1] = SQ
            /\ e[Len(e)] = SQ
            /\ \A i \in 1..Len(s) :
                 IF s[i] = SQ
                 THEN OccursAt(e, at(i), <<SQ, DQ, SQ, DQ, SQ>>)
                 ELSE e[at(i)] = s[i]

\* sh_escape has been applied to a string holding a quote between two other characters
C3_Witness == Escaped /\ esc_in = <<"a", SQ, SP>> /\ Len(Unwrap(esc_out)) = 9

\* build_command has returned a command string, Cmd
Built == pc = "ready" /\ IsSome(result) /\ Unwrap(result).ok
Cmd == Unwrap(result).cmd

ProgramName == IF opts.use_lpr THEN <<"l", "p", "r">> ELSE <<"l", "p">>

\* where the groups of the command line end
EndOfProgram == Len(ProgramName)
EndOfDestination == EndOfProgram + Len(DestinationArg(opts))
EndOfCopies == EndOfDestination + Len(CopiesArg(opts))
EndOfTitle == EndOfCopies + Len(TitleArg(opts))

\* C4: destination flag selection.  With a destination the command goes on,
\* right after the program name, with " -d " (lp) or " -P " (lpr) and
\* sh_escape(destination), then a space; without one, neither flag follows
\* the program name.
C4_DestinationFlag ==
    Built =>
        IF IsSome(opts.destination)
        THEN LET flag == IF opts.use_lpr THEN <<SP, "-", "P", SP>> ELSE <<SP, "-", "d", SP>>
                 group == ProgramName \o flag \o sh_escape(Unwrap(opts.destination))
             IN  IsPrefix(group \o <<SP>>, Cmd)
        ELSE /\ ~IsPrefix(ProgramName \o <<SP, "-", "d", SP>>, Cmd)
             /\ ~IsPrefix(ProgramName \o <<SP, "-", "P", SP>>, Cmd)

\* both variants have rendered the destination "O P"
C4_Witness ==
    /\ Built
    /\ opts.destination = Some(<<"O", SP, "P">>)
    /\ IF opts.use_lpr
       THEN IsPrefix(<<"l", "p", "r", SP, "-", "P", SP, SQ, "O", SP, "P", SQ, SP>>, Cmd)
       ELSE IsPrefix(<<"l", "p", SP, "-", "d", SP, SQ, "O", SP, "P", SQ, SP>>, Cmd)
    /\ opts.use_lpr

RECURSIVE Pow10(_)
Pow10(k) == IF k = 0 THEN 1 ELSE 10 * Pow10(k - 1)

\* d is the decimal numeral of n: digits only, no leading zero, of value n
IsDecimalOf(d, n) ==
    /\ Len(d) \in 1..10
    /\ n \div Pow10(Len(d) - 1) < 10
    /\ (Len(d) > 1 => d[1] /= "0")
    /\ \A i \in 1..Len(d) : d[i] = Digits[((n \div Pow10(Len(d) - i)) % 10) + 1]

\* C5: copies rendering.  With copies = n the command goes on, after the
\* destination group, with " -n " and the decimal digits of n (lp) or " -#"
\* and the digits with no space between (lpr), then a space; without copies
\* neither flag stands there.
C5_CopiesRendering ==
    Built =>
        IF IsSome(opts.copies)
        THEN LET flag == IF opts.use_lpr THEN <<SP, "-", "#">> ELSE <<SP, "-", "n", SP>>
                 first == EndOfDestination + Len(flag) + 1
             IN  /\ OccursAt(Cmd, EndOfDestination + 1, flag)
                 /\ \E last \in first..(Len(Cmd) - 1) :
                      /\ IsDecimalOf(SubSeq(Cmd, first, last), Unwrap(opts.copies))
                      /\ Cmd[last + 1] = SP
        ELSE /\ ~OccursAt(Cmd, EndOfDestination + 1, <<SP, "-", "n", SP>>)
             /\ ~OccursAt(Cmd, EndOfDestination + 1, <<SP, "-", "#">>)

\* lpr has rendered ten copies as -#10
C5_Witness ==
    /\ Built
    /\ opts.use_lpr
    /\ opts.copies = Some(10)
    /\ Contains(Cmd, <<SP, "-", "#", "1", "0", SP>>)

\* C6: title escaping end to end.  With a title the command goes on, after
\* the copies group, with " -t " (lp) or " -J " (lpr) and one token that a
\* shell reads as exactly the title; without one, neither flag stands there.
C6_TitleEscaping ==
    Built =>
        IF IsSome(opts.title)
        THEN LET flag == IF opts.use_lpr THEN <<SP, "-", "J", SP>> ELSE <<SP, "-", "t", SP>>
                 first == EndOfCopies + Len(flag) + 1
             IN  /\ OccursAt(Cmd, EndOfCopies + 1, flag)
                 /\ \E last \in first..(Len(Cmd) - 1) :
                      /\ ReadsAs(SubSeq(Cmd, first, last), <<Unwrap(opts.title)>>)
                      /\ Cmd[last + 1] = SP
        ELSE /\ ~OccursAt(Cmd, EndOfCopies + 1, <<SP, "-", "t", SP>>)
             /\ ~OccursAt(Cmd, EndOfCopies + 1, <<SP, "-", "J", SP>>)

\* lpr has rendered the title Q 'R' as -J 'Q '"'"'R'"'"''
C6_Witness ==
    /\ Built
    /\ opts.use_lpr
    /\ opts.title = Some(<<"Q", SP, SQ, "R", SQ>>)
    /\ Contains(Cmd, <<SP, "-", "J", SP, SQ, "Q", SP, SQ, DQ, SQ, DQ, SQ, "R",
                       SQ, DQ, SQ, DQ, SQ, SQ, SP>>)

\* the length of the text of the first n job options, " -o key=value" each
RECURSIVE JobOptionsLen(_, _)
JobOptionsLen(m, n) ==
    IF n = 0 THEN 0
    ELSE JobOptionsLen(m, n - 1) + 4 + Len(m[n][1]) + 1 + Len(m[n][2])

\* C7: job-option passthrough.  After the title group the command holds, for
\* each job option in turn, exactly " -o " key "=" value with key and value
\* as they are, and then the space before the content argument.
C7_JobOptionPassthrough ==
    Built =>
        LET m == opts.job_options IN
        /\ \A i \in 1..Len(m) :
             OccursAt(Cmd, EndOfTitle + JobOptionsLen(m, i - 1) + 1,
                      <<SP, "-", "o", SP>> \o m[i][1] \o <<"=">> \o m[i][2])
        /\ OccursAt(Cmd, EndOfTitle + JobOptionsLen(m, Len(m)) + 1, <<SP, SQ>>)

\* a job option whose value holds shell metacharacters has been rendered raw
C7_Witness ==
    /\ Built
    /\ opts.job_options = << <<<<"k">>, <<"1", ";", "x">>>> >>
    /\ Contains(Cmd, <<SP, "-", "o", SP, "k", "=", "1", ";", "x", SP>>)

\* C9: empty-path rejection.  build_command on File("") returns the error and
\* no command, whatever the options, and print on it returns the error
\* without running the shell.
C9_EmptyPathRejected ==
    (pc = "ready" /\ content = Some(File(<<>>))) =>
        /\ result = Some(Err)
        /\ status.ret = "Err"
        /\ status.runs = 0

\* print has been called on File("") with every option set
C9_Witness ==
    /\ pc = "ready"
    /\ content = Some(File(<<>>))
    /\ status.op = "print"
    /\ IsSome(opts.destination) /\ IsSome(opts.copies) /\ IsSome(opts.title)
    /\ opts.job_options /= <<>>

\* the two words of each job option: -o and key=value
RECURSIVE JobOptionWords(_)
JobOptionWords(m) ==
    IF m = <<>> THEN <<>>
    ELSE <<<<"-", "o">>, Head(m)[1] \o <<"=">> \o Head(m)[2]>> \o JobOptionWords(Tail(m))

\* the words build_command means the shell to read, w being the content path
IntendedWords(o, w) ==
    <<ProgramArg(o)>>
    \o (IF IsSome(o.destination)
        THEN <<IF o.use_lpr THEN <<"-", "P">> ELSE <<"-", "d">>, Unwrap(o.destination)>>
        ELSE <<>>)
    \o (IF IsSome(o.copies)
        THEN IF o.use_lpr THEN <<<<"-", "#">> \o Decimal(Unwrap(o.copies))>>
             ELSE <<<<"-", "n">>, Decimal(Unwrap(o.copies))>>
        ELSE <<>>)
    \o (IF IsSome(o.title)
        THEN <<IF o.use_lpr THEN <<"-", "J">> ELSE <<"-", "t">>, Unwrap(o.title)>>
        ELSE <<>>)
    \o JobOptionWords(o.job_options)
    \o <<w>>

\* C2: no argument injection.  Whatever the options and the non-empty file
\* path, a shell reads the command build_command returns as exactly the words
\* the builder meant (program, flag and value of each option present, -o and
\* key=value of each job option, the content path), with no unquoted operator
\* or expansion.
C2_NoInjection ==
    Built =>
        \E w \in {to_string_lossy(p) : p \in DOMAIN fs \cup {Unwrap(content).val}} :
            ReadsAs(Cmd, IntendedWords(opts, w))

\* the canonical order of a set of entries: ascending by key
Ascending(S) ==
    CHOOSE q \in [1..Cardinality(S) -> S] :
        /\ \A e \in S : \E i \in DOMAIN q : q[i] = e
        /\ \A i \in 1..(Cardinality(S) - 1) : StrLess(q[i][1], q[i + 1][1])

\* C8: sorted determinism.  The job options are held one entry per key in
\* ascending key order whatever the order of the job_option calls, and the
\* command renders the -o groups of the set of entries in ascending key order,
\* so the text depends on the set alone.
C8_SortedDeterminism ==
    /\ IsBTreeMap(opts.job_options)
    /\ Built =>
         LET m == opts.job_options
             entries == {m[i] : i \in 1..Len(m)}
         IN  OccursAt(Cmd, EndOfTitle + 1, JobOptionArgs(Ascending(entries)) \o <<SP, SQ>>)

\* z was inserted before a, and the command renders -o a=2 -o z=1
C8_Witness ==
    /\ Built
    /\ ins = <<<<"z">>, <<"a">>>>
    /\ Contains(Cmd, <<SP, "-", "o", SP, "a", "=", "2", SP, "-", "o", SP, "z", "=", "1", SP>>)

\* the tokens of the wire format, in its order: the tool, the flag and the
\* value of each option that is present in the spelling of the variant (the
\* lpr copies flag and its count are one token), -o and key=value for each
\* job option, and the escaped content path w
RECURSIVE JobOptionTokens(_)
JobOptionTokens(m) ==
    IF m = <<>> THEN <<>>
    ELSE <<<<"-", "o">>, Head(m)[1] \o <<"=">> \o Head(m)[2]>> \o JobOptionTokens(Tail(m))

WireTokens(o, w) ==
    <<IF o.use_lpr THEN <<"l", "p", "r">> ELSE <<"l", "p">>>>
    \o (IF IsSome(o.destination)
        THEN <<IF o.use_lpr THEN <<"-", "P">> ELSE <<"-", "d">>,
               sh_escape(Unwrap(o.destination))>>
        ELSE <<>>)
    \o (IF IsSome(o.copies)
        THEN IF o.use_lpr THEN <<<<"-", "#">> \o Decimal(Unwrap(o.copies))>>
             ELSE <<<<"-", "n">>, Decimal(Unwrap(o.copies))>>
        ELSE <<>>)
    \o (IF IsSome(o.title)
        THEN <<IF o.use_lpr THEN <<"-", "J">> ELSE <<"-", "t">>,
               sh_escape(Unwrap(o.title))>>
        ELSE <<>>)
    \o JobOptionTokens(o.job_options)
    \o <<sh_escape(w)>>

\* the tokens with one space between each two
RECURSIVE JoinSpace(_)
JoinSpace(ts) ==
    IF ts = <<>> THEN <<>>
    ELSE IF Len(ts) = 1 THEN Head(ts)
    ELSE Head(ts) \o <<SP>> \o JoinSpace(Tail(ts))

\* the path a returned command names: the file of a File job, a scratch
\* file of a Text job
ContentPaths == {to_string_lossy(p) : p \in DOMAIN fs \cup {Unwrap(content).val}}

\* C11: wire-format order.  A command string build_command returns is the
\* tool name of the variant, the destination group, the copies group, the
\* title group, the -o key=value groups and the escaped content path, in
\* that order, each flag in the spelling of the variant, nothing for an
\* option that is absent, one space between two tokens, and no space at
\* either end.
C11_WireFormat ==
    Built =>
        /\ \E w \in ContentPaths : Cmd = JoinSpace(WireTokens(opts, w))
        /\ Cmd[1] /= SP
        /\ Cmd[Len(Cmd)] /= SP

\* lpr with every option present has built the command for the file a '
C11_Witness ==
    /\ Built
    /\ opts = [FullOptions EXCEPT !.use_lpr = TRUE]
    /\ content = Some(File(<<"a", SP, SQ>>))
    /\ Cmd = <<"l", "p", "r", SP, "-", "P", SP, SQ, "O", SP, "P", SQ, SP,
               "-", "#", "2", SP,
               "-", "J", SP, SQ, "Q", SP, SQ, DQ, SQ, DQ, SQ, "R", SQ, DQ, SQ, DQ, SQ, SQ, SP,
               "-", "o", SP, "a", "=", "2", SP, "-", "o", SP, "z", "=", "1", SP,
               SQ, "a", SP, SQ, DQ, SQ, DQ, SQ, SQ>>

\* the last call returned the failure value
Failed == pc = "ready" /\ status.ret = "Err"

\* why the last call failed, in the words of the error taxonomy
Cause ==
    CASE status.run \in {"spawn_fails", "exit_nonzero"} -> "SubmissionFailed"
      [] status.io \in {"create_fails", "write_fails"} -> "ScratchIoError"
      [] content = Some(File(<<>>)) -> "EmptyPath"
      [] OTHER -> "none"

\* C13: distinguishable error kinds.  Two failures of different causes
\* (empty file path, scratch file create or write failure, submission
\* failure) return different values: when a call that failed is followed by
\* a call that failed for another cause, the caller gets another value.
C13_ErrorKindsDistinct ==
    [][(Failed /\ Failed' /\ Cause /= Cause') => status'.ret /= status.ret]_vars

\* C14: submission outcome.  A print call returns Ok exactly when
\* build_command returned a command, the shell was spawned and it exited with
\* status zero, and Err otherwise; it runs the shell once when build_command
\* returned a command and not at all when build_command failed.
C14_SubmissionOutcome ==
    (pc = "ready" /\ status.op = "print") =>
        LET built == Unwrap(result).ok IN
        /\ status.ret \in {"Ok", "Err"}
        /\ (status.ret = "Ok") <=> (built /\ status.run = "exit_zero")
        /\ status.runs = (IF built THEN 1 ELSE 0)
        /\ (built => status.run \in RunOutcomes)
        /\ (~built => status.run = "none")

\* print has built a command, run the shell once and returned Err because
\* the shell exited with a non-zero status
C14_Witness ==
    /\ pc = "ready"
    /\ status.op = "print"
    /\ Unwrap(result).ok
    /\ status.run = "exit_nonzero"
    /\ status.runs = 1
    /\ status.ret = "Err"

\* C15: no other validation.  build_command on a file with a non-empty path
\* returns a command whatever the options: any copy count, zero included,
\* any destination and title, empty or full of metacharacters, any job-option
\* keys and values.  It fails only on the empty file path and, for a text,
\* when the scratch file cannot be created or written.
C15_NoOtherValidation ==
    (pc = "ready" /\ IsSome(result)) =>
        LET c == Unwrap(content)
            ok == Unwrap(result).ok
        IN  /\ (c.kind = "File" /\ c.val /= <<>>) => ok
            /\ (c.kind = "Text" /\ status.io = "ok") => ok
            /\ ~ok => \/ c = File(<<>>)
                      \/ c.kind = "Text" /\ status.io \in {"create_fails", "write_fails"}

\* a command has been built for a file with a copy count of zero, rendered -n 0
C15_Witness ==
    /\ Built
    /\ Unwrap(content).kind = "File"
    /\ opts.copies = Some(0)
    /\ Contains(Cmd, <<SP, "-", "n", SP, "0", SP>>)

\* a call is made in this step, and the content it is made with
Started == jobs' = jobs + 1
StartedContent ==
    IF Len(inflight') > Len(inflight)
    THEN inflight'[Len(inflight')].content
    ELSE Unwrap(content')

\* a call returns in this step: one made on a file that returns at once, or
\* one under way
Returns ==
    \/ Len(inflight') < Len(inflight)
    \/ Started /\ inflight' = inflight

\* the scratch file of a call under way on a text
ScratchPath(k) == temp_path(tmpdir, k.ts)

\* the call returning in this step was made on a text and built its
\* command, and the scratch file the command names holds that text
TextInPlace ==
    \E path \in DOMAIN fs' :
        /\ fs'[path] = Unwrap(content').val
        /\ IsSuffix(<<SP>> \o sh_escape(to_string_lossy(path)), Unwrap(result').cmd)

\* C10: inline-text materialisation.  When build_command on Text(t) returns
\* a command, there is a scratch file holding exactly t, nothing added and
\* nothing changed, and the command ends with a space and sh_escape of that
\* file's path.
C10_TextMaterialized ==
    [][(/\ Returns
        /\ status'.op = "build_command"
        /\ Unwrap(content').kind = "Text"
        /\ Unwrap(result').ok) => TextInPlace]_vars

\* C12: scratch-path uniqueness.  The path temp_path gives a call on a text
\* is one no other call has used: it is not the path of a file already in
\* the scratch storage and not the path of another call under way, whether
\* that call was made in the same clock tick or not.
C12_ScratchPathUnique ==
    [][(Started /\ Len(inflight') > Len(inflight) /\ StartedContent.kind = "Text") =>
          LET p == ScratchPath(inflight'[Len(inflight')]) IN
          /\ p \notin DOMAIN fs
          /\ \A i \in 1..Len(inflight) :
               inflight[i].content.kind = "Text" => ScratchPath(inflight[i]) /= p]_vars

\* C16: scratch-storage frame.  No step of build_command or print deletes a
\* file.  A step that changes the scratch storage is a step of a call on
\* Text content, creating or writing the one scratch file of that call and
\* leaving every other file as it was; calls on File content change
\* nothing.  And when a call on Text content that built its command
\* returns, from build_command or from print, whatever the shell did, its
\* scratch file exists and holds the text of that call.
C16_ScratchFrame ==
    [][/\ \A p \in DOMAIN fs : p \in DOMAIN fs'
       /\ fs' /= fs =>
            \E i \in 1..Len(inflight) :
                /\ inflight[i].content.kind = "Text"
                /\ inflight[i].at \in {"named", "created"}
                /\ \A q \in DOMAIN fs' \ {ScratchPath(inflight[i])} :
                     q \in DOMAIN fs /\ fs'[q] = fs[q]
       /\ (Returns /\ Unwrap(content').kind = "Text" /\ Unwrap(result').ok) => TextInPlace
      ]_vars

\* the keys of a map, and the value it holds for a key
KeysOf(m) == {m[i][1] : i \in 1..Len(m)}
Get(m, k) ==
    IF k \in KeysOf(m)
    THEN Some((CHOOSE e \in {m[i] : i \in 1..Len(m)} : e[1] = k)[2])
    ELSE None

OptionFields == {"destination", "copies", "title", "job_options", "use_lpr"}

\* this step leaves every field of the options but f as it was
OtherFieldsKept(f) == \A g \in OptionFields \ {f} : opts'[g] = opts[g]

\* this step is a setter call that does what its name says: its field takes
\* the value of the call and the other fields stay
SetterStep ==
    LET n == setter'.name
        a == setter'.arg
    IN  CASE n = "destination" ->
               opts'.destination = Some(a) /\ OtherFieldsKept("destination")
          [] n = "destination_if" ->
               opts'.destination = a /\ OtherFieldsKept("destination")
          [] n = "clear_destination" ->
               opts'.destination = None /\ OtherFieldsKept("destination")
          [] n = "copies" ->
               opts'.copies = Some(a) /\ OtherFieldsKept("copies")
          [] n = "clear_copies" ->
               opts'.copies = None /\ OtherFieldsKept("copies")
          [] n = "title" ->
               opts'.title = Some(a) /\ OtherFieldsKept("title")
          [] n = "clear_title" ->
               opts'.title = None /\ OtherFieldsKept("title")
          [] n = "use_lpr" ->
               opts'.use_lpr = a /\ OtherFieldsKept("use_lpr")
          [] n = "job_options" ->
               opts'.job_options = a /\ OtherFieldsKept("job_options")
          [] n = "job_option" ->
               /\ Get(opts'.job_options, a[1]) = Some(a[2])
               /\ \A k \in (KeysOf(opts.job_options) \cup KeysOf(opts'.job_options)) \ {a[1]} :
                    Get(opts'.job_options, k) = Get(opts.job_options, k)
               /\ Len(opts'.job_options) = Cardinality(KeysOf(opts'.job_options))
               /\ OtherFieldsKept("job_options")
          [] OTHER -> FALSE

\* C17: options builder, last write wins.  builder() starts with no
\* destination, copies or title, no job options and use_lpr false.  Each
\* setter call gives its own field the value of the call (a clear gives
\* none, job_options gives the whole map, job_option gives its key the new
\* value and keeps the other keys) and leaves every other field as it was,
\* and build() returns the options as the calls left them; so each field
\* holds the value of the last call that set or cleared it.
C17_LastWriteWins ==
    /\ (pc = "builder" =>
          /\ opts.destination = None /\ opts.copies = None /\ opts.title = None
          /\ opts.job_options = <<>> /\ opts.use_lpr = FALSE)
    /\ [][/\ (pc = "builder" /\ (setter' /= setter \/ opts' /= opts)) => SetterStep
          /\ (pc = "builder" /\ pc' = "ready") => opts' = opts
         ]_vars

\* job_options({a: 2, z: 1}) and then job_option(a, 1): a holds the later
\* value, z the one it had
C17_Witness ==
    /\ pc = "builder"
    /\ setter = [name |-> "job_option", arg |-> <<<<"a">>, <<"1">>>>]
    /\ ins = <<<<"a">>>>
    /\ opts.job_options = << <<<<"a">>, <<"1">>>>, <<<<"z">>, <<"1">>>> >>

====
